---------------------------- MODULE Spec2Model ----------------------------
(***************************************************************************)
(* A model of kmip.services.server.crypto.engine.CryptographyEngine.       *)
(*                                                                         *)
(* The engine's own state is the capability registry built by __init__.    *)
(* Every public operation is one action: it takes its arguments from small *)
(* sets, runs the method's code and leaves the outcome in `call`; Return   *)
(* hands the outcome to the caller and discards the call frame.            *)
(* SpecConcurrent runs encrypt and decrypt step by step, one frame per    *)
(* thread, in every interleaving.                                          *)
(*                                                                         *)
(* Enumerations are strings, an absent enumeration is None.  Byte strings  *)
(* are sequences over 0..255, an absent byte string is NoBytes.  The       *)
(* pyca/cryptography primitives are modelled by what the engine relies on: *)
(* key-size tables, block sizes, the IV attribute of a mode, a keyed       *)
(* invertible cipher, the padders and the digest sizes.                    *)
(***************************************************************************)
EXTENDS Integers, Sequences, FiniteSets, TLC

\* ------------------------------------------------------------------ bounds
\* Byte values filling the plain and cipher texts given to a call: 1..MaxFill.
MaxFill == 1
\* Texts hold up to MaxBlocks blocks of 8 bytes, or one byte more.
MaxBlocks == 2
\* Key lengths asked of create_symmetric_key: up to MaxKeyBytes bytes.
MaxKeyBytes == 64
\* Calls that run on one engine at the same time.
MaxThreads == 2

\* -------------------------------------------------------------- basic values
None == "None"
NoBytes == <<-1>>

Rep(n, v) == [i \in 1..n |-> v]

RECURSIVE SumBytes(_)
SumBytes(s) == IF s = <<>> THEN 0 ELSE s[1] + SumBytes(Tail(s))

\* ------------------------------------------------------------------- state
VARIABLES
    symmetric_key_algorithms,
    asymmetric_key_algorithms,
    hash_algorithms,
    encryption_hash_algorithms,
    modes,
    asymmetric_padding_methods,
    symmetric_padding_methods,
    no_mode_needed,
    no_padding_needed,
    backend_idea,
    call,
    prev,
    frames

registry == <<symmetric_key_algorithms, asymmetric_key_algorithms, hash_algorithms, encryption_hash_algorithms, modes, asymmetric_padding_methods, symmetric_padding_methods, no_mode_needed, no_padding_needed>>

vars == <<registry, backend_idea, call, prev, frames>>

NoCall == [op |-> "none"]

\* The threads that call the engine, and the frame of one that is in no call.
Threads == 1..MaxThreads
Idle == [pc |-> "idle"]

\* ------------------------------------------------- outcomes of one call
\* A returned value, with the events (log records, random draws, primitive
\* invocations) of the call in order.
Result(v, tr) == [kind |-> "result", value |-> v, trace |-> tr]

\* A raised exception: kind is the exception class.
Raise(k, m, tr) == [kind |-> k, msg |-> m, trace |-> tr]

IsError(o) == o.kind # "result"


\* ------------------------------------------------- pyca/cryptography facts
\* algorithms.<cls>.key_sizes, in bits.
key_sizes(cls) ==
    CASE cls = "AES" -> {128, 192, 256}
      [] cls = "Camellia" -> {128, 192, 256}
      [] cls = "TripleDES" -> {64, 128, 192}
      [] cls = "Blowfish" -> {n \in 32..448 : n % 8 = 0}
      [] cls = "CAST5" -> {n \in 40..128 : n % 8 = 0}
      [] cls = "IDEA" -> {128}
      [] cls = "ARC4" -> {40, 56, 64, 80, 128, 160, 192, 256}
      [] OTHER -> {}

\* Only block ciphers carry a block_size attribute; ARC4 has none.
has_block_size(cls) == cls \in {"AES", "Camellia", "TripleDES", "Blowfish", "CAST5", "IDEA"}

\* algorithms.<cls>.block_size, in bits.
block_size(cls) == IF cls \in {"AES", "Camellia"} THEN 128 ELSE 64

\* cryptography_algorithm(key_bytes): the constructor verifies the key size
\* (len(key) * 8 in key_sizes) and rejects a key that is not a byte string.
key_accepted(cls, key) == key # NoBytes /\ (Len(key) * 8) \in key_sizes(cls)

\* hasattr(mode, 'initialization_vector') or hasattr(mode, 'nonce')
mode_needs_iv(m) == m \in {"CBC", "OFB", "CFB", "CTR"}

\* The (algorithm, mode) pairs the backend has a cipher for; IDEA depends
\* on the build of the backend.
cipher_supported(cls, m) ==
    /\ (cls = "ARC4") = (m = None)
    /\ (m = "CTR" => cls = "AES")
    /\ (cls = "IDEA" => backend_idea)

\* hashes.<cls>.digest_size, in bytes.
digest_size(h) ==
    CASE h = "MD5" -> 16
      [] h = "SHA1" -> 20
      [] h = "SHA224" -> 28
      [] h = "SHA256" -> 32
      [] h = "SHA384" -> 48
      [] h = "SHA512" -> 64

\* The keyed permutation of byte values the cipher applies, and its inverse.
key_shift(key) == 1 + ((SumBytes(key) + Len(key)) % 255)
E(key, b) == (b + key_shift(key)) % 256
D(key, b) == (b + 256 - key_shift(key)) % 256

\* The chaining value of position i: the IV for the first block, the
\* previous block of cipher text after it.
chain(ct, iv, B, i) == IF i <= B THEN iv[i] ELSE ct[i - B]

\* encryptor.update(data) + encryptor.finalize()
cipher_encrypt(cls, key, m, iv, data) ==
    LET B == IF has_block_size(cls) THEN block_size(cls) \div 8 ELSE 1
        n == Len(data)
        ecb == [i \in 1..n |-> E(key, data[i])]
        chained[i \in 1..n] == E(key, (data[i] + (IF i <= B THEN iv[i] ELSE chained[i - B])) % 256)
        stream == [i \in 1..n |-> (data[i] + E(key, (iv[((i - 1) % B) + 1] + i) % 256)) % 256]
        arc4 == [i \in 1..n |-> (data[i] + E(key, i % 256)) % 256]
    IN  CASE m = None -> arc4
          [] m = "ECB" -> ecb
          [] m \in {"CBC", "CFB"} -> [i \in 1..n |-> chained[i]]
          [] OTHER -> stream

\* decryptor.update(data) + decryptor.finalize()
cipher_decrypt(cls, key, m, iv, data) ==
    LET B == IF has_block_size(cls) THEN block_size(cls) \div 8 ELSE 1
        n == Len(data)
        ecb == [i \in 1..n |-> D(key, data[i])]
        chained == [i \in 1..n |-> (D(key, data[i]) + 256 - chain(data, iv, B, i)) % 256]
        stream == [i \in 1..n |-> (data[i] + 256 - E(key, (iv[((i - 1) % B) + 1] + i) % 256)) % 256]
        arc4 == [i \in 1..n |-> (data[i] + 256 - E(key, i % 256)) % 256]
    IN  CASE m = None -> arc4
          [] m = "ECB" -> ecb
          [] m \in {"CBC", "CFB"} -> chained
          [] OTHER -> stream

\* padding_method(block_size).padder(): update(data) + finalize()
pad(p, bits, data) ==
    LET B == bits \div 8
        n == B - (Len(data) % B)
    IN  IF p = "PKCS7" THEN data \o Rep(n, n) ELSE data \o Rep(n - 1, 0) \o <<n>>

\* Whether the unpadder accepts data: whole blocks, ending in a valid pad.
pad_valid(p, bits, data) ==
    LET B == bits \div 8
        L == Len(data)
    IN  /\ L > 0
        /\ L % B = 0
        /\ data[L] \in 1..B
        /\ \A i \in (L - data[L] + 1)..(L - 1) : data[i] = (IF p = "PKCS7" THEN data[L] ELSE 0)

\* padding_method(block_size).unpadder(): update(data) + finalize()
unpad(p, bits, data) == SubSeq(data, 1, Len(data) - data[Len(data)])

\* ----------------------------------------------------------- __init__
Init ==
    /\ symmetric_key_algorithms = [TRIPLE_DES |-> "TripleDES", AES |-> "AES", BLOWFISH |-> "Blowfish", CAMELLIA |-> "Camellia", CAST5 |-> "CAST5", IDEA |-> "IDEA", RC4 |-> "ARC4"]
    /\ asymmetric_key_algorithms = [RSA |-> "_create_rsa_key_pair"]
    /\ hash_algorithms = [HMAC_SHA1 |-> "SHA1", HMAC_SHA224 |-> "SHA224", HMAC_SHA256 |-> "SHA256", HMAC_SHA384 |-> "SHA384", HMAC_SHA512 |-> "SHA512", HMAC_MD5 |-> "MD5"]
    /\ encryption_hash_algorithms = [MD5 |-> "MD5", SHA_1 |-> "SHA1", SHA_224 |-> "SHA224", SHA_256 |-> "SHA256", SHA_384 |-> "SHA384", SHA_512 |-> "SHA512"]
    /\ modes = [CBC |-> "CBC", ECB |-> "ECB", OFB |-> "OFB", CFB |-> "CFB", CTR |-> "CTR"]
    /\ asymmetric_padding_methods = [OAEP |-> "OAEP", PKCS1v15 |-> "PKCS1v15"]
    /\ symmetric_padding_methods = [ANSI_X923 |-> "ANSIX923", PKCS5 |-> "PKCS7"]
    /\ no_mode_needed = {"RC4"}
    /\ no_padding_needed = {"CTR", "OFB", "CFB", "GCM"}
    /\ backend_idea \in BOOLEAN
    /\ call = NoCall
    /\ prev = NoCall
    /\ frames = [t \in Threads |-> Idle]


\* ------------------------------------------------- the cipher pipeline
\* _handle_symmetric_padding; algorithm is the algorithm class.
handle_symmetric_padding(algorithm, plain_text, padding_method, undo_padding) ==
    IF padding_method \in DOMAIN symmetric_padding_methods
    THEN LET p == symmetric_padding_methods[padding_method]
         IN  IF ~has_block_size(algorithm)
             THEN Raise("AttributeError", "block_size", <<>>)
             ELSE IF plain_text = NoBytes
             THEN Raise("TypeError", "data must be bytes", <<>>)
             ELSE IF undo_padding
             THEN IF pad_valid(p, block_size(algorithm), plain_text)
                  THEN Result(unpad(p, block_size(algorithm), plain_text), <<"unpadder">>)
                  ELSE Raise("ValueError", "Invalid padding bytes.", <<"unpadder">>)
             ELSE Result(pad(p, block_size(algorithm), plain_text), <<"padder">>)
    ELSE IF padding_method = None
    THEN Raise("InvalidField", "Padding method is required.", <<>>)
    ELSE Raise("InvalidField", "Padding method is not supported.", <<>>)

\* The cipher mode set-up shared by encrypt and decrypt once the IV is
\* known: modes.get(cipher_mode) and the mode's construction.
ModeSetup(m, iv, ret, tr) == [ok |-> TRUE, mode |-> m, iv_nonce |-> iv, return_iv_nonce |-> ret, trace |-> tr]
ModeError(o) == [ok |-> FALSE, error |-> o]

\* A mode set-up that marks the IV for return whenever the mode takes one,
\* also when the caller supplied it.
encrypt_mode_returns_supplied(encryption_algorithm, cipher_mode, iv_nonce, rnd) ==
    IF encryption_algorithm = "RC4"
    THEN ModeSetup(None, iv_nonce, FALSE, <<>>)
    ELSE IF cipher_mode = None
    THEN ModeError(Raise("InvalidField", "Cipher mode is required.", <<>>))
    ELSE IF cipher_mode \notin DOMAIN modes
    THEN ModeError(Raise("InvalidField", "Cipher mode is not a supported mode.", <<>>))
    ELSE IF mode_needs_iv(modes[cipher_mode])
    THEN IF iv_nonce = NoBytes
         THEN ModeSetup(modes[cipher_mode], Rep(block_size(symmetric_key_algorithms[encryption_algorithm]) \div 8, rnd), TRUE, <<"os.urandom">>)
         ELSE ModeSetup(modes[cipher_mode], iv_nonce, TRUE, <<>>)
    ELSE ModeSetup(modes[cipher_mode], NoBytes, FALSE, <<>>)

\* encrypt, "Set up the cipher mode if needed"; rnd is the byte os.urandom
\* draws.
encrypt_mode(encryption_algorithm, cipher_mode, iv_nonce, rnd) ==
    LET algorithm == symmetric_key_algorithms[encryption_algorithm]
    IN  IF encryption_algorithm = "RC4"
        THEN ModeSetup(None, iv_nonce, FALSE, <<>>)
        ELSE IF cipher_mode = None
        THEN ModeError(Raise("InvalidField", "Cipher mode is required.", <<>>))
        ELSE IF cipher_mode \notin DOMAIN modes
        THEN ModeError(Raise("InvalidField", "Cipher mode is not a supported mode.", <<>>))
        ELSE IF mode_needs_iv(modes[cipher_mode])
        THEN IF iv_nonce = NoBytes
             THEN ModeSetup(modes[cipher_mode], Rep(block_size(algorithm) \div 8, rnd), TRUE, <<"os.urandom">>)
             ELSE ModeSetup(modes[cipher_mode], iv_nonce, FALSE, <<>>)
        ELSE ModeSetup(modes[cipher_mode], NoBytes, FALSE, <<>>)

\* ciphers.Cipher(algorithm, mode, backend): the mode validates the length
\* of its IV against the algorithm, the backend looks the cipher up, and
\* a block mode accepts whole blocks only.
cipher_error(cls, m, iv, data) ==
    IF m # None /\ mode_needs_iv(m) /\ Len(iv) * 8 # block_size(cls)
    THEN "ValueError"
    ELSE IF ~cipher_supported(cls, m)
    THEN "UnsupportedAlgorithm"
    ELSE IF data = NoBytes
    THEN "TypeError"
    ELSE IF m \in {"CBC", "ECB"} /\ (Len(data) * 8) % block_size(cls) # 0
    THEN "ValueError"
    ELSE None

\* encrypt, "Encrypt the plain text" and the return.
encrypt_cipher(cls, key, ms, plain_text, tr) ==
    LET err == cipher_error(cls, ms.mode, ms.iv_nonce, plain_text)
        cipher_text == cipher_encrypt(cls, key, ms.mode, ms.iv_nonce, plain_text)
    IN  IF err # None
        THEN Raise(err, "cipher", tr \o <<"encryptor">>)
        ELSE IF ms.return_iv_nonce
        THEN Result([cipher_text |-> cipher_text, iv_nonce |-> ms.iv_nonce], tr \o <<"encryptor">>)
        ELSE Result([cipher_text |-> cipher_text], tr \o <<"encryptor">>)

\* A padding step that leaves a plain text of whole blocks as it is.
encrypt_pad_partial_only(encryption_algorithm, encryption_key, plain_text, cipher_mode, padding_method, ms) ==
    LET cls == symmetric_key_algorithms[encryption_algorithm]
        padded == handle_symmetric_padding(cls, plain_text, padding_method, FALSE)
    IN  IF cipher_mode \in {"CBC", "ECB"}
        THEN IF IsError(padded)
             THEN Raise(padded.kind, padded.msg, ms.trace \o padded.trace)
             ELSE IF (Len(plain_text) * 8) % block_size(cls) = 0
             THEN encrypt_cipher(cls, encryption_key, ms, plain_text, ms.trace)
             ELSE encrypt_cipher(cls, encryption_key, ms, padded.value, ms.trace \o padded.trace)
        ELSE encrypt_cipher(cls, encryption_key, ms, plain_text, ms.trace)

\* encrypt, "Pad the plain text if needed" and what follows.
encrypt_pad(encryption_algorithm, encryption_key, plain_text, cipher_mode, padding_method, ms) ==
    LET cls == symmetric_key_algorithms[encryption_algorithm]
        padded == handle_symmetric_padding(cls, plain_text, padding_method, FALSE)
    IN  IF cipher_mode \in {"CBC", "ECB"}
        THEN IF IsError(padded)
             THEN Raise(padded.kind, padded.msg, ms.trace \o padded.trace)
             ELSE encrypt_cipher(cls, encryption_key, ms, padded.value, ms.trace \o padded.trace)
        ELSE encrypt_cipher(cls, encryption_key, ms, plain_text, ms.trace)

encrypt(encryption_algorithm, encryption_key, plain_text, cipher_mode, padding_method, iv_nonce, rnd) ==
    IF encryption_algorithm = None
    THEN Raise("InvalidField", "Encryption algorithm is required.", <<>>)
    ELSE IF encryption_algorithm \notin DOMAIN symmetric_key_algorithms
    THEN Raise("InvalidField", "Encryption algorithm is not a supported symmetric encryption algorithm.", <<>>)
    ELSE IF ~key_accepted(symmetric_key_algorithms[encryption_algorithm], encryption_key)
    THEN Raise("CryptographicFailure", "Invalid key bytes for the specified encryption algorithm.", <<"logger.exception">>)
    ELSE LET ms == encrypt_mode(encryption_algorithm, cipher_mode, iv_nonce, rnd)
         IN  IF ~ms.ok
             THEN ms.error
             ELSE encrypt_pad(encryption_algorithm, encryption_key, plain_text, cipher_mode, padding_method, ms)

\* A mode set-up for decrypt that, like encrypt's, makes up the IV the
\* caller did not supply.
decrypt_mode_generates(decryption_algorithm, cipher_mode, iv_nonce) ==
    IF decryption_algorithm = "RC4"
    THEN ModeSetup(None, iv_nonce, FALSE, <<>>)
    ELSE IF cipher_mode = None
    THEN ModeError(Raise("InvalidField", "Cipher mode is required.", <<>>))
    ELSE IF cipher_mode \notin DOMAIN modes
    THEN ModeError(Raise("InvalidField", "Cipher mode is not a supported mode.", <<>>))
    ELSE IF mode_needs_iv(modes[cipher_mode])
    THEN IF iv_nonce = NoBytes
         THEN ModeSetup(modes[cipher_mode], Rep(block_size(symmetric_key_algorithms[decryption_algorithm]) \div 8, 0), FALSE, <<"os.urandom">>)
         ELSE ModeSetup(modes[cipher_mode], iv_nonce, FALSE, <<>>)
    ELSE ModeSetup(modes[cipher_mode], NoBytes, FALSE, <<>>)

\* decrypt, "Set up the cipher mode if needed".
decrypt_mode(decryption_algorithm, cipher_mode, iv_nonce) ==
    IF decryption_algorithm = "RC4"
    THEN ModeSetup(None, iv_nonce, FALSE, <<>>)
    ELSE IF cipher_mode = None
    THEN ModeError(Raise("InvalidField", "Cipher mode is required.", <<>>))
    ELSE IF cipher_mode \notin DOMAIN modes
    THEN ModeError(Raise("InvalidField", "Cipher mode is not a supported mode.", <<>>))
    ELSE IF mode_needs_iv(modes[cipher_mode])
    THEN IF iv_nonce = NoBytes
         THEN ModeError(Raise("InvalidField", "IV/nonce is required.", <<>>))
         ELSE ModeSetup(modes[cipher_mode], iv_nonce, FALSE, <<>>)
    ELSE ModeSetup(modes[cipher_mode], NoBytes, FALSE, <<>>)

\* decrypt, "Unpad the plain text if needed": the call passes no
\* undo_padding argument, so the parameter keeps its default, False.
decrypt_unpad(cls, plain_text, cipher_mode, padding_method, tr) ==
    LET unpadded == handle_symmetric_padding(cls, plain_text, padding_method, FALSE)
    IN  IF cipher_mode \in {"CBC", "ECB"}
        THEN IF IsError(unpadded)
             THEN Raise(unpadded.kind, unpadded.msg, tr \o unpadded.trace)
             ELSE Result(unpadded.value, tr \o unpadded.trace)
        ELSE Result(plain_text, tr)

\* decrypt, "Decrypt the plain text" and what follows.
decrypt_cipher(cls, key, ms, cipher_text, cipher_mode, padding_method) ==
    LET err == cipher_error(cls, ms.mode, ms.iv_nonce, cipher_text)
        plain_text == cipher_decrypt(cls, key, ms.mode, ms.iv_nonce, cipher_text)
    IN  IF err # None
        THEN Raise(err, "cipher", ms.trace \o <<"decryptor">>)
        ELSE decrypt_unpad(cls, plain_text, cipher_mode, padding_method, ms.trace \o <<"decryptor">>)

decrypt(decryption_algorithm, decryption_key, cipher_text, cipher_mode, padding_method, iv_nonce) ==
    IF decryption_algorithm = None
    THEN Raise("InvalidField", "Decryption algorithm is required.", <<>>)
    ELSE IF decryption_algorithm \notin DOMAIN symmetric_key_algorithms
    THEN Raise("InvalidField", "Decryption algorithm is not a supported symmetric decryption algorithm.", <<>>)
    ELSE IF ~key_accepted(symmetric_key_algorithms[decryption_algorithm], decryption_key)
    THEN Raise("CryptographicFailure", "Invalid key bytes for the specified decryption algorithm.", <<"logger.exception">>)
    ELSE LET ms == decrypt_mode(decryption_algorithm, cipher_mode, iv_nonce)
         IN  IF ~ms.ok
             THEN ms.error
             ELSE decrypt_cipher(symmetric_key_algorithms[decryption_algorithm], decryption_key, ms, cipher_text, cipher_mode, padding_method)

\* ------------------------------------------------------- key generation
\* A key generation that draws length bytes, not length // 8.
create_symmetric_key_draws_bits(algorithm, length, rnd) ==
    IF algorithm \notin DOMAIN symmetric_key_algorithms
    THEN Raise("InvalidField", "The cryptographic algorithm is not a supported symmetric key algorithm.", <<>>)
    ELSE IF length \notin key_sizes(symmetric_key_algorithms[algorithm])
    THEN Raise("InvalidField", "The cryptographic length is not valid for the cryptographic algorithm.", <<>>)
    ELSE IF ~key_accepted(symmetric_key_algorithms[algorithm], Rep(length, rnd))
    THEN Raise("CryptographicFailure", "Invalid bytes for the provided cryptographic algorithm.", <<"logger.info", "os.urandom", "logger.exception">>)
    ELSE Result([value |-> Rep(length, rnd), format |-> "RAW"], <<"logger.info", "os.urandom">>)

\* A key generation that leaves the check of the length to the algorithm's
\* constructor.
create_symmetric_key_unchecked(algorithm, length, rnd) ==
    IF algorithm \notin DOMAIN symmetric_key_algorithms
    THEN Raise("InvalidField", "The cryptographic algorithm is not a supported symmetric key algorithm.", <<>>)
    ELSE IF length < 0 \/ ~key_accepted(symmetric_key_algorithms[algorithm], Rep(length \div 8, rnd))
    THEN Raise("CryptographicFailure", "Invalid bytes for the provided cryptographic algorithm.", <<"logger.info", "os.urandom", "logger.exception">>)
    ELSE Result([value |-> Rep(length \div 8, rnd), format |-> "RAW"], <<"logger.info", "os.urandom">>)

create_symmetric_key(algorithm, length, rnd) ==
    IF algorithm \notin DOMAIN symmetric_key_algorithms
    THEN Raise("InvalidField", "The cryptographic algorithm is not a supported symmetric key algorithm.", <<>>)
    ELSE LET cryptography_algorithm == symmetric_key_algorithms[algorithm]
             key_bytes == Rep(length \div 8, rnd)
         IN  IF length \notin key_sizes(cryptography_algorithm)
             THEN Raise("InvalidField", "The cryptographic length is not valid for the cryptographic algorithm.", <<>>)
             ELSE IF ~key_accepted(cryptography_algorithm, key_bytes)
             THEN Raise("CryptographicFailure", "Invalid bytes for the provided cryptographic algorithm.", <<"logger.info", "os.urandom", "logger.exception">>)
             ELSE Result([value |-> key_bytes, format |-> "RAW"], <<"logger.info", "os.urandom">>)

\* rsa.generate_private_key rejects a key size under 512 bits.
rsa_rejects(length) == length < 512

\* A key pair generation that returns the private key first.
create_rsa_key_pair_private_first(length, public_exponent, rnd) ==
    IF rsa_rejects(length)
    THEN Raise("CryptographicFailure", "An error occurred while generating the RSA key pair. See the server log for more information.", <<"logger.info", "rsa.generate_private_key", "logger.exception">>)
    ELSE Result(<<[value |-> <<8, length, rnd>>, format |-> "PKCS_8", public_exponent |-> public_exponent],
                  [value |-> <<1, length, rnd>>, format |-> "PKCS_1", public_exponent |-> public_exponent]>>,
                <<"logger.info", "rsa.generate_private_key">>)

\* _create_rsa_key_pair: the DER bytes stand as <<tag, key size, random>>.
create_rsa_key_pair(length, public_exponent, rnd) ==
    IF rsa_rejects(length)
    THEN Raise("CryptographicFailure", "An error occurred while generating the RSA key pair. See the server log for more information.", <<"logger.info", "rsa.generate_private_key", "logger.exception">>)
    ELSE Result(<<[value |-> <<1, length, rnd>>, format |-> "PKCS_1", public_exponent |-> public_exponent],
                  [value |-> <<8, length, rnd>>, format |-> "PKCS_8", public_exponent |-> public_exponent]>>,
                <<"logger.info", "rsa.generate_private_key">>)

create_asymmetric_key_pair(algorithm, length, rnd) ==
    IF algorithm \notin DOMAIN asymmetric_key_algorithms
    THEN Raise("InvalidField", "The cryptographic algorithm is not a supported asymmetric key algorithm.", <<>>)
    ELSE create_rsa_key_pair(length, 65537, rnd)

\* ------------------------------------------------------------------ mac
\* hmac.HMAC(key, hash): update(data), finalize(): digest_size bytes that
\* depend on the hash, the key and the data.
hmac_bytes(h, key, data) == [i \in 1..digest_size(h) |-> (key_shift(key) + SumBytes(data) + Len(data) + digest_size(h) + i) % 256]

\* cmac.CMAC(cipher_algorithm(key)): update(data), finalize(): one block.
cmac_bytes(cls, key, data) == [i \in 1..(block_size(cls) \div 8) |-> E(key, (SumBytes(data) + Len(data) + i) % 256)]

\* CMAC takes block ciphers the backend has.
cmac_supported(cls) == has_block_size(cls) /\ (cls = "IDEA" => backend_idea)

\* A mac that reports the rejection of the CMAC construction as InvalidField.
mac_cmac_invalid(algorithm, key, data) ==
    IF algorithm \in DOMAIN hash_algorithms
    THEN IF key = NoBytes \/ data = NoBytes
         THEN Raise("CryptographicFailure", "An error occurred while computing an HMAC. See the server log for more information.", <<"logger.info", "hmac.HMAC", "logger.exception">>)
         ELSE Result(hmac_bytes(hash_algorithms[algorithm], key, data), <<"logger.info", "hmac.HMAC">>)
    ELSE IF algorithm \in DOMAIN symmetric_key_algorithms
    THEN IF ~key_accepted(symmetric_key_algorithms[algorithm], key) \/ ~cmac_supported(symmetric_key_algorithms[algorithm]) \/ data = NoBytes
         THEN Raise("InvalidField", "An error occurred while computing a CMAC.", <<"logger.info", "cmac.CMAC">>)
         ELSE Result(cmac_bytes(symmetric_key_algorithms[algorithm], key, data), <<"logger.info", "cmac.CMAC">>)
    ELSE Raise("InvalidField", "The cryptographic algorithm is not a supported for a MAC operation.", <<>>)

mac(algorithm, key, data) ==
    IF algorithm \in DOMAIN hash_algorithms
    THEN IF key = NoBytes \/ data = NoBytes
         THEN Raise("CryptographicFailure", "An error occurred while computing an HMAC. See the server log for more information.", <<"logger.info", "hmac.HMAC", "logger.exception">>)
         ELSE Result(hmac_bytes(hash_algorithms[algorithm], key, data), <<"logger.info", "hmac.HMAC">>)
    ELSE IF algorithm \in DOMAIN symmetric_key_algorithms
    THEN LET cipher_algorithm == symmetric_key_algorithms[algorithm]
         IN  IF ~key_accepted(cipher_algorithm, key) \/ ~cmac_supported(cipher_algorithm) \/ data = NoBytes
             THEN Raise("CryptographicFailure", "An error occurred while computing a CMAC. See the server log for more information.", <<"logger.info", "cmac.CMAC">>)
             ELSE Result(cmac_bytes(cipher_algorithm, key, data), <<"logger.info", "cmac.CMAC">>)
    ELSE Raise("InvalidField", "The cryptographic algorithm is not a supported for a MAC operation.", <<>>)

\* -------------------------------------------------------- key derivation
\* An absent integer argument.
NoInt == 0 - 1

\* The output of a key derivation function (HKDF, PBKDF2HMAC, KBKDFHMAC):
\* length bytes that depend on the function, the hash and the inputs.
kdf_bytes(f, h, length, key, data, salt, n) ==
    LET d == IF data = NoBytes THEN 0 ELSE SumBytes(data) + Len(data)
        t == IF salt = NoBytes THEN 0 ELSE SumBytes(salt) + Len(salt)
    IN  [i \in 1..length |-> (f + digest_size(h) + key_shift(key) + d + t + n + i) % 256]

\* hashes.Hash(algorithm): update(data), finalize(): the digest.
hash_bytes(h, data) == [i \in 1..digest_size(h) |-> (SumBytes(data) + 7 * Len(data) + i) % 256]

\* What a derivation function refuses: a length beyond its maximum (255
\* digests for HKDF, the smallest of the three; no length given here
\* reaches it) and, in derive(), key material that is not a byte string.
kdf_error(h, length, key_material) ==
    IF length > 255 * digest_size(h)
    THEN "ValueError"
    ELSE IF key_material = NoBytes
    THEN "TypeError"
    ELSE None

\* A HASH branch without the check that only one buffer is given: it
\* hashes the derivation data when both are.
derive_key_hash_both(hashing_algorithm, derivation_data, key_material) ==
    IF derivation_data # NoBytes
    THEN Result(hash_bytes(hashing_algorithm, derivation_data), <<"hashes.Hash">>)
    ELSE IF key_material # NoBytes
    THEN Result(hash_bytes(hashing_algorithm, key_material), <<"hashes.Hash">>)
    ELSE Raise("InvalidField", "For hash-based key derivation, derivation data or key material must be specified.", <<>>)

\* derive_key, the HASH branch.
derive_key_hash(hashing_algorithm, derivation_data, key_material) ==
    IF derivation_data # NoBytes /\ key_material # NoBytes
    THEN Raise("InvalidField", "For hash-based key derivation, specify only derivation data or key material, not both.", <<>>)
    ELSE IF derivation_data # NoBytes
    THEN Result(hash_bytes(hashing_algorithm, derivation_data), <<"hashes.Hash">>)
    ELSE IF key_material # NoBytes
    THEN Result(hash_bytes(hashing_algorithm, key_material), <<"hashes.Hash">>)
    ELSE Raise("InvalidField", "For hash-based key derivation, derivation data or key material must be specified.", <<>>)

\* derive_key, the HMAC branch (HKDF).
derive_key_hmac(hashing_algorithm, derivation_length, derivation_data, key_material, salt) ==
    LET err == kdf_error(hashing_algorithm, derivation_length, key_material)
    IN  IF err # None
        THEN Raise(err, "hkdf", <<"hkdf.HKDF">>)
        ELSE Result(kdf_bytes(1, hashing_algorithm, derivation_length, key_material, derivation_data, salt, 0), <<"hkdf.HKDF">>)

\* A PBKDF2 branch that hands the iteration count over as the length and
\* the length as the iteration count.
derive_key_pbkdf2_swapped(hashing_algorithm, derivation_length, key_material, salt, iteration_count) ==
    IF salt = NoBytes \/ iteration_count = NoInt
    THEN Raise("InvalidField", "For PBKDF2 key derivation, salt and iteration count must be specified.", <<>>)
    ELSE IF kdf_error(hashing_algorithm, iteration_count, key_material) # None
    THEN Raise(kdf_error(hashing_algorithm, iteration_count, key_material), "pbkdf2", <<"pbkdf2.PBKDF2HMAC">>)
    ELSE Result(kdf_bytes(2, hashing_algorithm, iteration_count, key_material, NoBytes, salt, derivation_length), <<"pbkdf2.PBKDF2HMAC">>)

\* derive_key, the PBKDF2 branch.
derive_key_pbkdf2(hashing_algorithm, derivation_length, key_material, salt, iteration_count) ==
    LET err == kdf_error(hashing_algorithm, derivation_length, key_material)
    IN  IF salt = NoBytes
        THEN Raise("InvalidField", "For PBKDF2 key derivation, salt must be specified.", <<>>)
        ELSE IF iteration_count = NoInt
        THEN Raise("InvalidField", "For PBKDF2 key derivation, iteration count must be specified.", <<>>)
        ELSE IF err # None
        THEN Raise(err, "pbkdf2", <<"pbkdf2.PBKDF2HMAC">>)
        ELSE Result(kdf_bytes(2, hashing_algorithm, derivation_length, key_material, NoBytes, salt, iteration_count), <<"pbkdf2.PBKDF2HMAC">>)

\* derive_key, the NIST800_108_C branch (KBKDFHMAC in counter mode).
derive_key_nist(hashing_algorithm, derivation_length, derivation_data, key_material) ==
    LET err == kdf_error(hashing_algorithm, derivation_length, key_material)
    IN  IF err # None
        THEN Raise(err, "kbkdf", <<"kbkdf.KBKDFHMAC">>)
        ELSE Result(kdf_bytes(3, hashing_algorithm, derivation_length, key_material, derivation_data, NoBytes, 0), <<"kbkdf.KBKDFHMAC">>)

\* A dispatch that takes every method it does not know for HMAC.
derive_key_hashed_default_hmac(derivation_method, derivation_length, derivation_data, key_material, hashing_algorithm, salt, iteration_count) ==
    CASE derivation_method = "HASH" ->
           derive_key_hash(hashing_algorithm, derivation_data, key_material)
      [] derivation_method = "PBKDF2" ->
           derive_key_pbkdf2(hashing_algorithm, derivation_length, key_material, salt, iteration_count)
      [] derivation_method = "NIST800_108_C" ->
           derive_key_nist(hashing_algorithm, derivation_length, derivation_data, key_material)
      [] OTHER ->
           derive_key_hmac(hashing_algorithm, derivation_length, derivation_data, key_material, salt)

\* derive_key, the dispatch on the methods that use a hash algorithm.
derive_key_hashed(derivation_method, derivation_length, derivation_data, key_material, hashing_algorithm, salt, iteration_count) ==
    CASE derivation_method = "HMAC" ->
           derive_key_hmac(hashing_algorithm, derivation_length, derivation_data, key_material, salt)
      [] derivation_method = "HASH" ->
           derive_key_hash(hashing_algorithm, derivation_data, key_material)
      [] derivation_method = "PBKDF2" ->
           derive_key_pbkdf2(hashing_algorithm, derivation_length, key_material, salt, iteration_count)
      [] derivation_method = "NIST800_108_C" ->
           derive_key_nist(hashing_algorithm, derivation_length, derivation_data, key_material)
      [] OTHER ->
           Raise("InvalidField", "Derivation method is not a supported key derivation method.", <<>>)

\* An ENCRYPT branch that hands out the IV encrypt drew, when it drew one.
derive_key_encrypt_iv(result) ==
    IF IsError(result)
    THEN result
    ELSE IF "iv_nonce" \in DOMAIN result.value
    THEN Result(result.value.iv_nonce, result.trace)
    ELSE Result(result.value.cipher_text, result.trace)

\* derive_key, the ENCRYPT branch: result.get('cipher_text').
derive_key_encrypt(result) == IF IsError(result) THEN result ELSE Result(result.value.cipher_text, result.trace)

derive_key(derivation_method, derivation_length, derivation_data, key_material, hash_algorithm, salt, iteration_count, encryption_algorithm, cipher_mode, padding_method, iv_nonce, rnd) ==
    IF derivation_method = "ENCRYPT"
    THEN derive_key_encrypt(encrypt(encryption_algorithm, key_material, derivation_data, cipher_mode, padding_method, iv_nonce, rnd))
    ELSE IF hash_algorithm = None
    THEN Raise("InvalidField", "Hash algorithm is required.", <<>>)
    ELSE IF hash_algorithm \notin DOMAIN encryption_hash_algorithms
    THEN Raise("InvalidField", "Hash algorithm is not a supported hashing algorithm.", <<>>)
    ELSE derive_key_hashed(derivation_method, derivation_length, derivation_data, key_material, encryption_hash_algorithms[hash_algorithm], salt, iteration_count)

\* ------------------------------------------------------------- key wrap
\* keywrap.aes_key_wrap(wrapping_key, key_to_wrap, backend): the reason it
\* refuses its arguments, or None.
aes_key_wrap_error(wrapping_key, key_to_wrap) ==
    IF wrapping_key = NoBytes \/ key_to_wrap = NoBytes
    THEN "object of type 'NoneType' has no len()"
    ELSE IF Len(wrapping_key) \notin {16, 24, 32}
    THEN "The wrapping key must be a valid AES key length"
    ELSE IF Len(key_to_wrap) < 16
    THEN "The key to wrap must be at least 16 bytes"
    ELSE IF Len(key_to_wrap) % 8 # 0
    THEN "The key to wrap must be a multiple of 8 bytes"
    ELSE None

\* The wrapped key: an integrity block followed by the encrypted key.
aes_key_wrap(wrapping_key, key_to_wrap) == Rep(8, E(wrapping_key, 166)) \o [i \in 1..Len(key_to_wrap) |-> E(wrapping_key, key_to_wrap[i])]

\* A wrap_key that does not look at the wrapping method.
wrap_key_any_method(key_material, wrapping_method, key_wrap_algorithm, encryption_key) ==
    IF key_wrap_algorithm = "NIST_KEY_WRAP"
    THEN IF aes_key_wrap_error(encryption_key, key_material) # None
         THEN Raise("CryptographicFailure", aes_key_wrap_error(encryption_key, key_material), <<"keywrap.aes_key_wrap">>)
         ELSE Result(aes_key_wrap(encryption_key, key_material), <<"keywrap.aes_key_wrap">>)
    ELSE Raise("InvalidField", "Encryption algorithm is not a supported key wrapping algorithm.", <<>>)

wrap_key(key_material, wrapping_method, key_wrap_algorithm, encryption_key) ==
    IF wrapping_method = "ENCRYPT"
    THEN IF key_wrap_algorithm = "NIST_KEY_WRAP"
         THEN IF aes_key_wrap_error(encryption_key, key_material) # None
              THEN Raise("CryptographicFailure", aes_key_wrap_error(encryption_key, key_material), <<"keywrap.aes_key_wrap">>)
              ELSE Result(aes_key_wrap(encryption_key, key_material), <<"keywrap.aes_key_wrap">>)
         ELSE Raise("InvalidField", "Encryption algorithm is not a supported key wrapping algorithm.", <<>>)
    ELSE Raise("InvalidField", "Wrapping method is not a supported key wrapping method.", <<>>)

\* ------------------------------------------------------ argument values
Fills == 1..MaxFill
Lengths == {8 * b + r : b \in 0..MaxBlocks, r \in {0, 1}}

\* An algorithm of every family, one outside the registry, and none.
Algorithms == {"TRIPLE_DES", "AES", "BLOWFISH", "CAMELLIA", "CAST5", "IDEA", "RC4", "RSA", "HMAC_SHA256", None}
\* Keys of 3 bytes (no algorithm takes them), 8 and 16 bytes, and none.
Keys == {Rep(n, 1) : n \in {3, 8, 16}} \cup {NoBytes}
Texts == {Rep(n, v) : n \in Lengths, v \in Fills} \cup {NoBytes}
CipherModes == {"CBC", "ECB", "OFB", "CFB", "CTR", "GCM", None}
PaddingMethods == {"PKCS5", "ANSI_X923", "ZEROS", None}
IVs == {Rep(n, 2) : n \in {1, 8, 16}} \cup {NoBytes}
\* The byte os.urandom repeats.
RandomBytes == {0, 255}

DerivationMethods == {"ENCRYPT", "HMAC", "HASH", "PBKDF2", "NIST800_108_C", "ASYMMETRIC_KEY", None}
DerivationLengths == {16, 20, 32}
DerivationData == {NoBytes, <<>>, Rep(16, 2)}
KeyMaterial == {NoBytes, Rep(16, 1), Rep(20, 1)}
HashingAlgorithms == {"MD5", "SHA_1", "SHA_256", "MD2", None}
Salts == {NoBytes, Rep(8, 3)}
IterationCounts == {NoInt, 1, 1000}
\* The arguments of the cipher given to a derivation by a method that
\* does not read them.
UnusedCipher == {<<None, None, None, NoBytes>>, <<"AES", "CBC", "PKCS5", Rep(16, 2)>>}
UsedCipher == {"AES", "RC4", "RSA", None} \X CipherModes \X PaddingMethods \X IVs
WrappingMethods == {"ENCRYPT", "MAC_SIGN", None}

KeyLengths == {8 * n : n \in 0..MaxKeyBytes} \cup {0 - 8, 1, 100}

\* ---------------------------------------------------------------- actions
CreateSymmetricKey ==
    /\ call = NoCall
    /\ \E a \in Algorithms, n \in KeyLengths, rnd \in RandomBytes :
          call' = [op |-> "create_symmetric_key",
                   args |-> [algorithm |-> a, length |-> n],
                   outcome |-> create_symmetric_key(a, n, rnd)]
    /\ prev' = NoCall
    /\ UNCHANGED <<registry, backend_idea, frames>>

CreateAsymmetricKeyPair ==
    /\ call = NoCall
    /\ \E a \in Algorithms, n \in {256, 512, 1024, 2048}, rnd \in RandomBytes :
          call' = [op |-> "create_asymmetric_key_pair",
                   args |-> [algorithm |-> a, length |-> n],
                   outcome |-> create_asymmetric_key_pair(a, n, rnd)]
    /\ prev' = NoCall
    /\ UNCHANGED <<registry, backend_idea, frames>>

Mac ==
    /\ call = NoCall
    /\ \E a \in Algorithms \cup DOMAIN hash_algorithms, k \in Keys, t \in Texts :
          call' = [op |-> "mac",
                   args |-> [algorithm |-> a, key |-> k, data |-> t],
                   outcome |-> mac(a, k, t)]
    /\ prev' = NoCall
    /\ UNCHANGED <<registry, backend_idea, frames>>

Encrypt ==
    /\ call = NoCall
    /\ \E a \in Algorithms, k \in Keys, t \in Texts, m \in CipherModes, p \in PaddingMethods, iv \in IVs, rnd \in RandomBytes :
          call' = [op |-> "encrypt",
                   args |-> [algorithm |-> a, key |-> k, text |-> t, cipher_mode |-> m, padding_method |-> p, iv_nonce |-> iv],
                   outcome |-> encrypt(a, k, t, m, p, iv, rnd)]
    /\ prev' = NoCall
    /\ UNCHANGED <<registry, backend_idea, frames>>

Decrypt ==
    /\ call = NoCall
    /\ \E a \in Algorithms, k \in Keys, t \in Texts, m \in CipherModes, p \in PaddingMethods, iv \in IVs :
          call' = [op |-> "decrypt",
                   args |-> [algorithm |-> a, key |-> k, text |-> t, cipher_mode |-> m, padding_method |-> p, iv_nonce |-> iv],
                   outcome |-> decrypt(a, k, t, m, p, iv)]
    /\ prev' = NoCall
    /\ UNCHANGED <<registry, backend_idea, frames>>

\* The IV an encrypt call used: the one it generated and returned, or the
\* caller's.
UsedIV(c) == IF "iv_nonce" \in DOMAIN c.outcome.value THEN c.outcome.value.iv_nonce ELSE c.args.iv_nonce

\* The caller of a successful encrypt decrypts the cipher text it got, with
\* the same algorithm, key, mode and padding and with the IV encrypt used.
DecryptReturned ==
    /\ call # NoCall
    /\ call.op = "encrypt"
    /\ call.outcome.kind = "result"
    /\ call' = [op |-> "decrypt",
                args |-> [call.args EXCEPT !.text = call.outcome.value.cipher_text, !.iv_nonce = UsedIV(call)],
                outcome |-> decrypt(call.args.algorithm, call.args.key, call.outcome.value.cipher_text, call.args.cipher_mode, call.args.padding_method, UsedIV(call))]
    /\ prev' = call
    /\ UNCHANGED <<registry, backend_idea, frames>>

\* The outcome is handed to the caller; nothing of the call is kept.
Return ==
    /\ call # NoCall
    /\ call' = NoCall
    /\ prev' = NoCall
    /\ UNCHANGED <<registry, backend_idea, frames>>

DeriveKey ==
    /\ call = NoCall
    /\ \E dm \in DerivationMethods, n \in DerivationLengths, d \in DerivationData, k \in KeyMaterial :
       \E h \in (IF dm = "ENCRYPT" THEN {None, "SHA_256"} ELSE HashingAlgorithms) :
       \E s \in (IF dm = "ENCRYPT" THEN {NoBytes} ELSE Salts), ic \in (IF dm = "ENCRYPT" THEN {NoInt} ELSE IterationCounts) :
       \E c \in (IF dm = "ENCRYPT" THEN UsedCipher ELSE UnusedCipher), rnd \in RandomBytes :
          call' = [op |-> "derive_key",
                   args |-> [derivation_method |-> dm, derivation_length |-> n, derivation_data |-> d, key_material |-> k, hash_algorithm |-> h, salt |-> s, iteration_count |-> ic, encryption_algorithm |-> c[1], cipher_mode |-> c[2], padding_method |-> c[3], iv_nonce |-> c[4]],
                   outcome |-> derive_key(dm, n, d, k, h, s, ic, c[1], c[2], c[3], c[4], rnd)]
    /\ prev' = NoCall
    /\ UNCHANGED <<registry, backend_idea, frames>>

\* A wrap_key that enters the key wrap algorithm it was given into the
\* table of modes.
WrapKey_registers ==
    /\ call = NoCall
    /\ \E k \in KeyMaterial, wm \in WrappingMethods, a \in {"NIST_KEY_WRAP", "CBC", None}, ek \in Keys :
          /\ call' = [op |-> "wrap_key",
                      args |-> [key_material |-> k, wrapping_method |-> wm, key_wrap_algorithm |-> a, encryption_key |-> ek],
                      outcome |-> wrap_key(k, wm, a, ek)]
          /\ modes' = (IF a = None THEN modes ELSE (a :> a) @@ modes)
    /\ prev' = NoCall
    /\ UNCHANGED <<symmetric_key_algorithms, asymmetric_key_algorithms, hash_algorithms, encryption_hash_algorithms, asymmetric_padding_methods, symmetric_padding_methods, no_mode_needed, no_padding_needed, backend_idea, frames>>

WrapKey ==
    /\ call = NoCall
    /\ \E k \in KeyMaterial, wm \in WrappingMethods, a \in {"NIST_KEY_WRAP", "CBC", None}, ek \in Keys :
          call' = [op |-> "wrap_key",
                   args |-> [key_material |-> k, wrapping_method |-> wm, key_wrap_algorithm |-> a, encryption_key |-> ek],
                   outcome |-> wrap_key(k, wm, a, ek)]
    /\ prev' = NoCall
    /\ UNCHANGED <<registry, backend_idea, frames>>

Next ==
    \/ CreateSymmetricKey
    \/ CreateAsymmetricKeyPair
    \/ Mac
    \/ Encrypt
    \/ Decrypt
    \/ DecryptReturned
    \/ DeriveKey
    \/ WrapKey
    \/ Return

Spec == Init /\ [][Next]_vars


\* ------------------------------------------------------ concurrent calls
\* Threads call encrypt and decrypt on the one engine at the same time.  The
\* arguments and local variables of a call live in the frame of its thread;
\* a call proceeds by the steps its code marks: the algorithm, the cipher
\* mode, the padding, the cipher.

\* A call of encrypt or decrypt with AES and PKCS5, or with no algorithm.
CipherCall(o, a, k, x, m, iv) == [op |-> o, algorithm |-> a, key |-> k, text |-> x, cipher_mode |-> m, padding_method |-> "PKCS5", iv_nonce |-> iv]

\* The calls the threads make: an encrypt that draws its IV and one given
\* it, a decrypt in a mode with padding and in one without, a decrypt
\* without the IV and one of a partial block, a rejected key, no algorithm.
ConcurrentCalls ==
    {CipherCall("encrypt", "AES", Rep(16, 1), Rep(16, 1), "CBC", NoBytes),
     CipherCall("encrypt", "AES", Rep(16, 1), Rep(8, 2), "CTR", Rep(16, 2)),
     CipherCall("decrypt", "AES", Rep(16, 1), Rep(16, 1), "CBC", Rep(16, 2)),
     CipherCall("decrypt", "AES", Rep(16, 1), Rep(8, 2), "CTR", Rep(16, 2)),
     CipherCall("decrypt", "AES", Rep(16, 1), Rep(8, 2), "CTR", NoBytes),
     CipherCall("decrypt", "AES", Rep(16, 1), Rep(8, 2), "CBC", Rep(16, 2)),
     CipherCall("encrypt", "AES", Rep(3, 1), Rep(16, 1), "CBC", NoBytes),
     CipherCall("encrypt", None, Rep(16, 1), Rep(16, 1), "CBC", NoBytes)}

NoSetup == [ok |-> FALSE]
NoOutcome == [kind |-> "none"]

\* The frame of a call that ended with outcome o.
Done(f, o) == [f EXCEPT !.pc = "done", !.outcome = o]

\* encrypt and decrypt, the checks of the algorithm and the construction
\* of the algorithm object from the key.
algorithm_setup(op, algorithm, key) ==
    IF algorithm = None
    THEN Raise("InvalidField", IF op = "encrypt" THEN "Encryption algorithm is required." ELSE "Decryption algorithm is required.", <<>>)
    ELSE IF algorithm \notin DOMAIN symmetric_key_algorithms
    THEN Raise("InvalidField", IF op = "encrypt" THEN "Encryption algorithm is not a supported symmetric encryption algorithm." ELSE "Decryption algorithm is not a supported symmetric decryption algorithm.", <<>>)
    ELSE IF ~key_accepted(symmetric_key_algorithms[algorithm], key)
    THEN Raise("CryptographicFailure", IF op = "encrypt" THEN "Invalid key bytes for the specified encryption algorithm." ELSE "Invalid key bytes for the specified decryption algorithm.", <<"logger.exception">>)
    ELSE NoOutcome

\* The call enters the method: its arguments are bound in a new frame.
Start(t) ==
    /\ frames[t].pc = "idle"
    /\ \E c \in ConcurrentCalls :
          frames' = [frames EXCEPT ![t] = [pc |-> "algorithm", call |-> c, rnd |-> NoInt, ms |-> NoSetup, text |-> c.text, trace |-> <<>>, outcome |-> NoOutcome]]
    /\ UNCHANGED <<registry, backend_idea, call, prev>>

\* "Set up the algorithm".
AlgorithmStep(t) ==
    /\ frames[t].pc = "algorithm"
    /\ LET f == frames[t]
           o == algorithm_setup(f.call.op, f.call.algorithm, f.call.key)
       IN  frames' = [frames EXCEPT ![t] = IF o.kind # "none" THEN Done(f, o) ELSE [f EXCEPT !.pc = "mode"]]
    /\ UNCHANGED <<registry, backend_idea, call, prev>>

\* A mode set-up that keeps the mode and the IV on the engine, where the
\* calls under way find them, and not in a local variable.
ModeStep_on_engine(t) ==
    /\ frames[t].pc = "mode"
    /\ \E rnd \in RandomBytes :
          LET f == frames[t]
              ms == IF f.call.op = "encrypt"
                    THEN encrypt_mode(f.call.algorithm, f.call.cipher_mode, f.call.iv_nonce, rnd)
                    ELSE decrypt_mode(f.call.algorithm, f.call.cipher_mode, f.call.iv_nonce)
          IN  frames' = [u \in Threads |->
                            IF u = t
                            THEN IF ~ms.ok
                                 THEN Done(f, ms.error)
                                 ELSE [f EXCEPT !.pc = IF f.call.op = "encrypt" THEN "pad" ELSE "cipher",
                                                !.ms = ms,
                                                !.trace = ms.trace,
                                                !.rnd = IF ms.trace # <<>> THEN rnd ELSE NoInt]
                            ELSE IF ms.ok /\ frames[u].pc \in {"pad", "cipher"}
                            THEN [frames[u] EXCEPT !.ms = ms]
                            ELSE frames[u]]
    /\ UNCHANGED <<registry, backend_idea, call, prev>>

\* "Set up the cipher mode if needed"; in encrypt os.urandom draws the IV
\* at this step.
ModeStep(t) ==
    /\ frames[t].pc = "mode"
    /\ \E rnd \in RandomBytes :
          LET f == frames[t]
              ms == IF f.call.op = "encrypt"
                    THEN encrypt_mode(f.call.algorithm, f.call.cipher_mode, f.call.iv_nonce, rnd)
                    ELSE decrypt_mode(f.call.algorithm, f.call.cipher_mode, f.call.iv_nonce)
          IN  frames' = [frames EXCEPT ![t] =
                            IF ~ms.ok
                            THEN Done(f, ms.error)
                            ELSE [f EXCEPT !.pc = IF f.call.op = "encrypt" THEN "pad" ELSE "cipher",
                                           !.ms = ms,
                                           !.trace = ms.trace,
                                           !.rnd = IF ms.trace # <<>> THEN rnd ELSE NoInt]]
    /\ UNCHANGED <<registry, backend_idea, call, prev>>

\* encrypt, "Pad the plain text if needed": plain_text is rebound to the
\* padded bytes.
PadStep(t) ==
    /\ frames[t].pc = "pad"
    /\ LET f == frames[t]
           padded == handle_symmetric_padding(symmetric_key_algorithms[f.call.algorithm], f.text, f.call.padding_method, FALSE)
       IN  frames' = [frames EXCEPT ![t] =
                         IF f.call.cipher_mode \in {"CBC", "ECB"}
                         THEN IF IsError(padded)
                              THEN Done(f, Raise(padded.kind, padded.msg, f.trace \o padded.trace))
                              ELSE [f EXCEPT !.pc = "cipher", !.text = padded.value, !.trace = f.trace \o padded.trace]
                         ELSE [f EXCEPT !.pc = "cipher"]]
    /\ UNCHANGED <<registry, backend_idea, call, prev>>

\* "Encrypt the plain text" and encrypt's return; "Decrypt the plain text".
\* The cipher context is built and used up within the step.
CipherStep(t) ==
    /\ frames[t].pc = "cipher"
    /\ LET f == frames[t]
           cls == symmetric_key_algorithms[f.call.algorithm]
           err == cipher_error(cls, f.ms.mode, f.ms.iv_nonce, f.text)
       IN  frames' = [frames EXCEPT ![t] =
                         IF f.call.op = "encrypt"
                         THEN Done(f, encrypt_cipher(cls, f.call.key, f.ms, f.text, f.trace))
                         ELSE IF err # None
                         THEN Done(f, Raise(err, "cipher", f.trace \o <<"decryptor">>))
                         ELSE [f EXCEPT !.pc = "unpad",
                                        !.text = cipher_decrypt(cls, f.call.key, f.ms.mode, f.ms.iv_nonce, f.text),
                                        !.trace = f.trace \o <<"decryptor">>]]
    /\ UNCHANGED <<registry, backend_idea, call, prev>>

\* decrypt, "Unpad the plain text if needed" and the return.
UnpadStep(t) ==
    /\ frames[t].pc = "unpad"
    /\ LET f == frames[t]
       IN  frames' = [frames EXCEPT ![t] = Done(f, decrypt_unpad(symmetric_key_algorithms[f.call.algorithm], f.text, f.call.cipher_mode, f.call.padding_method, f.trace))]
    /\ UNCHANGED <<registry, backend_idea, call, prev>>

\* The outcome reaches the caller and the frame is gone.
ReturnStep(t) ==
    /\ frames[t].pc = "done"
    /\ frames' = [frames EXCEPT ![t] = Idle]
    /\ UNCHANGED <<registry, backend_idea, call, prev>>

NextConcurrent ==
    \E t \in Threads :
        \/ Start(t)
        \/ AlgorithmStep(t)
        \/ ModeStep(t)
        \/ PadStep(t)
        \/ CipherStep(t)
        \/ UnpadStep(t)
        \/ ReturnStep(t)

SpecConcurrent == Init /\ [][NextConcurrent]_vars

\* The outcome of the call of frame f when it runs alone, with the same
\* arguments and the same random bytes.
Alone(f) ==
    IF f.call.op = "encrypt"
    THEN encrypt(f.call.algorithm, f.call.key, f.call.text, f.call.cipher_mode, f.call.padding_method, f.call.iv_nonce, IF f.rnd = NoInt THEN 0 ELSE f.rnd)
    ELSE decrypt(f.call.algorithm, f.call.key, f.call.text, f.call.cipher_mode, f.call.padding_method, f.call.iv_nonce)

\* ----------------------------------------------------------------- claims
Events(o) == {o.trace[i] : i \in DOMAIN o.trace}
Succeeded(op) == call.op = op /\ call.outcome.kind = "result"
Supported(a) == a \in DOMAIN symmetric_key_algorithms
PaddedMode(m) == m \in {"CBC", "ECB"}

\* C1: round-trip law.  Decrypting the cipher text a successful encrypt
\* returned, with the same algorithm, key, mode and padding and with the IV
\* encrypt used, succeeds and returns exactly the plain text.
C1_RoundTrip ==
    (call.op = "decrypt" /\ prev # NoCall) =>
        (call.outcome.kind = "result" /\ call.outcome.value = prev.args.text)

\* C2: in decrypt under CBC or ECB the padding method removes padding: the
\* returned plain text is the raw decryption with its padding stripped, so
\* it is strictly shorter than the cipher text.
C2_DecryptStripsPadding ==
    (Succeeded("decrypt") /\ PaddedMode(call.args.cipher_mode)) =>
        LET cls == symmetric_key_algorithms[call.args.algorithm]
            p == symmetric_padding_methods[call.args.padding_method]
            raw == cipher_decrypt(cls, call.args.key, modes[call.args.cipher_mode], call.args.iv_nonce, call.args.text)
        IN  /\ pad_valid(p, block_size(cls), raw)
            /\ call.outcome.value = unpad(p, block_size(cls), raw)
            /\ Len(call.outcome.value) < Len(call.args.text)

\* C3: for a supported symmetric algorithm and a length among its legal key
\* sizes, create_symmetric_key succeeds with exactly length/8 bytes in
\* format RAW.
C3_SymmetricKeyLength ==
    (call.op = "create_symmetric_key" /\ Supported(call.args.algorithm) /\ call.args.length \in key_sizes(symmetric_key_algorithms[call.args.algorithm])) =>
        /\ call.outcome.kind = "result"
        /\ Len(call.outcome.value.value) * 8 = call.args.length
        /\ call.outcome.value.format = "RAW"

C3_Witness ==
    /\ Succeeded("create_symmetric_key")
    /\ call.args.algorithm = "BLOWFISH"
    /\ call.args.length = 448
    /\ Len(call.outcome.value.value) = 56

\* C4: create_symmetric_key with an (algorithm, length) pair outside the
\* capability set fails with InvalidField, never CryptographicFailure, and
\* no random bytes have been drawn by then.
C4_OutsideCapabilityInvalidField ==
    (call.op = "create_symmetric_key" /\ ~(Supported(call.args.algorithm) /\ call.args.length \in key_sizes(symmetric_key_algorithms[call.args.algorithm]))) =>
        /\ call.outcome.kind = "InvalidField"
        /\ "os.urandom" \notin Events(call.outcome)

C4_Witness ==
    /\ call.op = "create_symmetric_key"
    /\ call.args.algorithm = "AES"
    /\ call.args.length = 64
    /\ call.outcome.kind = "InvalidField"

\* C5: the result of encrypt holds an iv_nonce field exactly when the
\* algorithm is not a stream cipher, the mode takes an IV/nonce and the
\* caller supplied none; the returned IV then has the algorithm's block
\* size.
C5_ReturnedIV ==
    Succeeded("encrypt") =>
        LET returned == "iv_nonce" \in DOMAIN call.outcome.value
        IN  /\ returned = (/\ call.args.algorithm # "RC4"
                           /\ call.args.cipher_mode \in {"CBC", "OFB", "CFB", "CTR"}
                           /\ call.args.iv_nonce = NoBytes)
            /\ returned => Len(call.outcome.value.iv_nonce) * 8 = block_size(symmetric_key_algorithms[call.args.algorithm])

C5_Witness ==
    /\ Succeeded("encrypt")
    /\ call.args.algorithm = "AES"
    /\ call.args.cipher_mode = "CBC"
    /\ call.args.iv_nonce = NoBytes
    /\ "iv_nonce" \in DOMAIN call.outcome.value
    /\ Len(call.outcome.value.iv_nonce) = 16

\* C6: decrypt with a supported non-stream algorithm, a valid key, a mode
\* that takes an IV/nonce and no IV fails with InvalidField before the
\* decryptor is run; decrypt never draws an IV.
C6_DecryptNeedsIV ==
    call.op = "decrypt" =>
        /\ "os.urandom" \notin Events(call.outcome)
        /\ (/\ Supported(call.args.algorithm)
            /\ call.args.algorithm # "RC4"
            /\ key_accepted(symmetric_key_algorithms[call.args.algorithm], call.args.key)
            /\ call.args.cipher_mode \in {"CBC", "OFB", "CFB", "CTR"}
            /\ call.args.iv_nonce = NoBytes)
           => (call.outcome.kind = "InvalidField" /\ "decryptor" \notin Events(call.outcome))

C6_Witness ==
    /\ call.op = "decrypt"
    /\ call.args.algorithm = "AES"
    /\ call.args.key = Rep(16, 1)
    /\ call.args.cipher_mode = "CTR"
    /\ call.args.iv_nonce = NoBytes
    /\ call.outcome.kind = "InvalidField"
    /\ call.outcome.msg = "IV/nonce is required."

C8_HashOneBuffer ==
    (call.op = "derive_key" /\ call.args.derivation_method = "HASH" /\ call.args.hash_algorithm \in DOMAIN encryption_hash_algorithms) =>
        LET h == encryption_hash_algorithms[call.args.hash_algorithm]
            data == call.args.derivation_data
            key == call.args.key_material
        IN  /\ (data = NoBytes) = (key = NoBytes) => call.outcome.kind = "InvalidField"
            /\ (data # NoBytes /\ key = NoBytes) => (call.outcome.kind = "result" /\ call.outcome.value = hash_bytes(h, data))
            /\ (data = NoBytes /\ key # NoBytes) => (call.outcome.kind = "result" /\ call.outcome.value = hash_bytes(h, key))

C8_Witness ==
    /\ call.op = "derive_key"
    /\ call.args.derivation_method = "HASH"
    /\ call.args.hash_algorithm = "MD5"
    /\ call.args.derivation_data # NoBytes
    /\ call.args.key_material # NoBytes
    /\ call.outcome.kind = "InvalidField"

\* C9: every call of a public operation ends in a result, InvalidField or
\* CryptographicFailure; no other exception reaches the caller.
C9_TypedOutcome ==
    call # NoCall => call.outcome.kind \in {"result", "InvalidField", "CryptographicFailure"}

\* C10: mac picks the construction by the family of the algorithm: HMAC
\* with the mapped hash for the hash family; CMAC for the symmetric family,
\* where a stream cipher or a rejected key fails with CryptographicFailure;
\* InvalidField for, and only for, an algorithm of neither family.
C10_MacByFamily ==
    call.op = "mac" =>
        LET a == call.args.algorithm
            hashed == a \in DOMAIN hash_algorithms
            ciphered == a \in DOMAIN symmetric_key_algorithms
        IN  /\ (hashed /\ call.outcome.kind = "result") => call.outcome.value = hmac_bytes(hash_algorithms[a], call.args.key, call.args.data)
            /\ (hashed /\ call.args.key # NoBytes /\ call.args.data # NoBytes) => call.outcome.kind = "result"
            /\ (ciphered /\ call.outcome.kind = "result") => call.outcome.value = cmac_bytes(symmetric_key_algorithms[a], call.args.key, call.args.data)
            /\ (ciphered /\ (a = "RC4" \/ ~key_accepted(symmetric_key_algorithms[a], call.args.key))) => call.outcome.kind = "CryptographicFailure"
            /\ (call.outcome.kind = "InvalidField") = (~hashed /\ ~ciphered)

C10_Witness ==
    /\ call.op = "mac"
    /\ call.args.algorithm = "RC4"
    /\ call.args.key = Rep(16, 1)
    /\ call.args.data = Rep(8, 1)
    /\ call.outcome.kind = "CryptographicFailure"

\* C11: wrap_key with a wrapping method other than ENCRYPT, or with ENCRYPT
\* and a key wrap algorithm other than NIST_KEY_WRAP, fails with
\* InvalidField and never calls aes_key_wrap; with ENCRYPT and
\* NIST_KEY_WRAP it calls aes_key_wrap, and what aes_key_wrap refuses (a
\* key to wrap that is no multiple of 8 bytes, a wrapping key of no AES
\* length) fails with CryptographicFailure.
C11_WrapKeyValidation ==
    call.op = "wrap_key" =>
        LET wrapping == call.args.wrapping_method = "ENCRYPT" /\ call.args.key_wrap_algorithm = "NIST_KEY_WRAP"
            refused == \/ call.args.encryption_key = NoBytes
                       \/ call.args.key_material = NoBytes
                       \/ Len(call.args.encryption_key) \notin {16, 24, 32}
                       \/ Len(call.args.key_material) % 8 # 0
        IN  /\ ~wrapping => (call.outcome.kind = "InvalidField" /\ "keywrap.aes_key_wrap" \notin Events(call.outcome))
            /\ wrapping => "keywrap.aes_key_wrap" \in Events(call.outcome)
            /\ (wrapping /\ refused) => call.outcome.kind = "CryptographicFailure"
            /\ (wrapping /\ ~refused) => call.outcome.kind = "result"

C11_Witness ==
    /\ call.op = "wrap_key"
    /\ call.args.wrapping_method = "ENCRYPT"
    /\ call.args.key_wrap_algorithm = "NIST_KEY_WRAP"
    /\ call.args.encryption_key = Rep(16, 1)
    /\ call.args.key_material = Rep(20, 1)
    /\ call.outcome.kind = "CryptographicFailure"

\* C12: create_asymmetric_key_pair fails with InvalidField for every
\* algorithm other than RSA, before rsa.generate_private_key is called.  For
\* RSA it returns the pair (public, private): the public key encoded and
\* tagged PKCS_1, the private key encoded and tagged PKCS_8, both with
\* public_exponent 65537; a key size the generation refuses fails with
\* CryptographicFailure.
C12_AsymmetricKeyPair ==
    call.op = "create_asymmetric_key_pair" =>
        /\ call.args.algorithm # "RSA" =>
               (call.outcome.kind = "InvalidField" /\ "rsa.generate_private_key" \notin Events(call.outcome))
        /\ call.args.algorithm = "RSA" =>
               /\ "rsa.generate_private_key" \in Events(call.outcome)
               /\ call.outcome.kind \in {"result", "CryptographicFailure"}
               /\ (call.outcome.kind = "CryptographicFailure") = rsa_rejects(call.args.length)
               /\ call.outcome.kind = "result" =>
                      LET public_key == call.outcome.value[1]
                          private_key == call.outcome.value[2]
                      IN  /\ Len(call.outcome.value) = 2
                          /\ public_key.format = "PKCS_1" /\ public_key.value[1] = 1
                          /\ private_key.format = "PKCS_8" /\ private_key.value[1] = 8
                          /\ public_key.value[2] = call.args.length /\ private_key.value[2] = call.args.length
                          /\ public_key.public_exponent = 65537 /\ private_key.public_exponent = 65537

C12_Witness ==
    /\ Succeeded("create_asymmetric_key_pair")
    /\ call.args.algorithm = "RSA"
    /\ call.args.length = 2048
    /\ call.outcome.value[1].format = "PKCS_1"
    /\ call.outcome.value[2].format = "PKCS_8"

\* The outcomes of the operation of call c with the same enumeration
\* arguments and every other choice of the bytes, lengths and random draw
\* its primitive is given.
OtherRuns(c) ==
    CASE c.op = "create_symmetric_key" ->
           {create_symmetric_key(c.args.algorithm, n, rnd) : n \in KeyLengths, rnd \in RandomBytes}
      [] c.op = "create_asymmetric_key_pair" ->
           {create_asymmetric_key_pair(c.args.algorithm, n, 0) : n \in {256, 512}}
      [] c.op = "mac" ->
           {mac(c.args.algorithm, k, t) : k \in Keys, t \in {NoBytes, <<>>}}
      [] c.op = "encrypt" ->
           {encrypt(c.args.algorithm, k, c.args.text, c.args.cipher_mode, c.args.padding_method, c.args.iv_nonce, 0) : k \in Keys}
      [] c.op = "decrypt" ->
           {decrypt(c.args.algorithm, k, c.args.text, c.args.cipher_mode, c.args.padding_method, c.args.iv_nonce) : k \in Keys}
      [] c.op = "wrap_key" ->
           {wrap_key(k, c.args.wrapping_method, c.args.key_wrap_algorithm, ek) : k \in KeyMaterial, ek \in Keys}
      [] OTHER -> {c.outcome}

\* C13: a CryptographicFailure is opaque.  Whenever a call of
\* create_symmetric_key, create_asymmetric_key_pair, mac, encrypt, decrypt
\* or wrap_key ends in CryptographicFailure, every other run of the same
\* operation that fails in the primitive, for whatever reason, hands the
\* caller the same failure value.
C13_OpaqueFailure ==
    (call # NoCall /\ call.outcome.kind = "CryptographicFailure") =>
        \A o \in OtherRuns(call) : o.kind = "CryptographicFailure" => o.msg = call.outcome.msg

\* C14: the registry is read-only.  In every state, after any sequence of
\* calls, successful or failing, each of the nine tables holds exactly the
\* entries the constructor gave it.
C14_RegistryReadOnly ==
    /\ symmetric_key_algorithms = [TRIPLE_DES |-> "TripleDES", AES |-> "AES", BLOWFISH |-> "Blowfish", CAMELLIA |-> "Camellia", CAST5 |-> "CAST5", IDEA |-> "IDEA", RC4 |-> "ARC4"]
    /\ asymmetric_key_algorithms = [RSA |-> "_create_rsa_key_pair"]
    /\ hash_algorithms = [HMAC_SHA1 |-> "SHA1", HMAC_SHA224 |-> "SHA224", HMAC_SHA256 |-> "SHA256", HMAC_SHA384 |-> "SHA384", HMAC_SHA512 |-> "SHA512", HMAC_MD5 |-> "MD5"]
    /\ encryption_hash_algorithms = [MD5 |-> "MD5", SHA_1 |-> "SHA1", SHA_224 |-> "SHA224", SHA_256 |-> "SHA256", SHA_384 |-> "SHA384", SHA_512 |-> "SHA512"]
    /\ modes = [CBC |-> "CBC", ECB |-> "ECB", OFB |-> "OFB", CFB |-> "CFB", CTR |-> "CTR"]
    /\ asymmetric_padding_methods = [OAEP |-> "OAEP", PKCS1v15 |-> "PKCS1v15"]
    /\ symmetric_padding_methods = [ANSI_X923 |-> "ANSIX923", PKCS5 |-> "PKCS7"]
    /\ no_mode_needed = {"RC4"}
    /\ no_padding_needed = {"CTR", "OFB", "CFB", "GCM"}

\* A second call in a row, a decrypt after an encrypt, after which the
\* table of modes is the constructor's.
C14_Witness ==
    /\ call.op = "decrypt"
    /\ prev # NoCall
    /\ prev.op = "encrypt"
    /\ prev.args.cipher_mode = "CBC"
    /\ DOMAIN modes = {"CBC", "ECB", "OFB", "CFB", "CTR"}

\* C15: concurrent calls share no mutable state.  Under every interleaving
\* of the steps of the threads' calls, a call that has ended has the
\* outcome it has when run alone with the same arguments and the same
\* random bytes, and a step of one call changes the frame (IV, padded plain
\* text, mode, outcome) of no other call.
C15_ConcurrentCalls ==
    [][/\ \A t \in Threads : frames'[t].pc = "done" => frames'[t].outcome = Alone(frames'[t])
       /\ \A t, u \in Threads : t # u => (frames'[t] = frames[t] \/ frames'[u] = frames[u])]_vars

\* One call has ended with the IV it drew while another call, a decrypt
\* with the caller's IV, is before its cipher step.
C15_Witness ==
    /\ frames[1].pc = "done"
    /\ frames[1].call.op = "encrypt"
    /\ frames[1].outcome.kind = "result"
    /\ frames[1].rnd = 255
    /\ frames[2].pc = "cipher"
    /\ frames[2].call.op = "decrypt"
    /\ frames[2].ms.iv_nonce = Rep(16, 2)

C17_ValidationOrder ==
    call.op \in {"encrypt", "decrypt"} =>
        LET a == call.args.algorithm
            accepted == Supported(a) /\ key_accepted(symmetric_key_algorithms[a], call.args.key)
        IN  /\ ~Supported(a) => (call.outcome.kind = "InvalidField" /\ Events(call.outcome) = {})
            /\ (Supported(a) /\ ~accepted) => call.outcome.kind = "CryptographicFailure"
            /\ (accepted /\ a # "RC4" /\ call.args.cipher_mode \notin DOMAIN modes) => call.outcome.kind = "InvalidField"
            /\ (accepted /\ PaddedMode(call.args.cipher_mode) /\ call.args.padding_method \notin DOMAIN symmetric_padding_methods) =>
                   call.outcome.kind = "InvalidField"

\* C18: for RC4, cipher_mode, padding_method and iv_nonce have no effect.
\* With a key RC4 accepts and a text given, encrypt and decrypt have, for
\* every cipher_mode (CBC and ECB too), padding_method and iv_nonce, the
\* outcome of the call that gives none of the three: the result of the
\* stream cipher on the text as it is, with no padding applied or asked for
\* and no IV drawn or returned.
C18_StreamCipherIgnoresMode ==
    (/\ call.op \in {"encrypt", "decrypt"}
     /\ call.args.algorithm = "RC4"
     /\ key_accepted("ARC4", call.args.key)
     /\ call.args.text # NoBytes) =>
        /\ call.outcome.kind = "result"
        /\ call.op = "encrypt" =>
               /\ call.outcome = encrypt("RC4", call.args.key, call.args.text, None, None, NoBytes, 0)
               /\ call.outcome.value = [cipher_text |-> cipher_encrypt("ARC4", call.args.key, None, NoBytes, call.args.text)]
        /\ call.op = "decrypt" =>
               /\ call.outcome = decrypt("RC4", call.args.key, call.args.text, None, None, NoBytes)
               /\ call.outcome.value = cipher_decrypt("ARC4", call.args.key, None, NoBytes, call.args.text)
        /\ Events(call.outcome) \cap {"padder", "unpadder", "os.urandom"} = {}

\* C19: derive_key with method ENCRYPT is encrypt with key_material as the
\* key and derivation_data as the plain text.  For the random byte the call
\* drew, it returns the cipher_text of encrypt's result, as bytes and
\* without the IV encrypt generated, and it fails with encrypt's error when
\* encrypt fails; the hash algorithm, given or not, plays no part.
C19_DeriveByEncrypt ==
    (call.op = "derive_key" /\ call.args.derivation_method = "ENCRYPT") =>
        \E rnd \in RandomBytes :
            LET e == encrypt(call.args.encryption_algorithm, call.args.key_material, call.args.derivation_data,
                             call.args.cipher_mode, call.args.padding_method, call.args.iv_nonce, rnd)
            IN  /\ call.outcome.kind = e.kind
                /\ call.outcome.trace = e.trace
                /\ IsError(e) => call.outcome.msg = e.msg
                /\ ~IsError(e) => call.outcome.value = e.value.cipher_text

\* A derivation without a hash algorithm, in CBC without an IV: encrypt
\* draws the IV, and the two blocks returned are the cipher text.
C19_Witness ==
    /\ Succeeded("derive_key")
    /\ call.args.derivation_method = "ENCRYPT"
    /\ call.args.hash_algorithm = None
    /\ call.args.encryption_algorithm = "AES"
    /\ call.args.cipher_mode = "CBC"
    /\ call.args.iv_nonce = NoBytes
    /\ "os.urandom" \in Events(call.outcome)
    /\ Len(call.args.derivation_data) = 16
    /\ Len(call.outcome.value) = 32

\* C20: derive_key with a method other than ENCRYPT fails with InvalidField,
\* before any derivation primitive is called, when the hash algorithm is
\* absent or not in the table of derivation hashes, whatever the method and
\* the other arguments; and, with a supported hash, when the method is
\* PBKDF2 and the salt or the iteration count is absent, or when the method
\* is none of HMAC, HASH, PBKDF2 and NIST800_108_C.
C20_DeriveKeyValidation ==
    (call.op = "derive_key" /\ call.args.derivation_method # "ENCRYPT") =>
        LET hashed == call.args.hash_algorithm \in DOMAIN encryption_hash_algorithms
            refused == \/ ~hashed
                       \/ call.args.derivation_method = "PBKDF2" /\ (call.args.salt = NoBytes \/ call.args.iteration_count = NoInt)
                       \/ call.args.derivation_method \notin {"HMAC", "HASH", "PBKDF2", "NIST800_108_C"}
        IN  refused =>
                /\ call.outcome.kind = "InvalidField"
                /\ Events(call.outcome) \cap {"hkdf.HKDF", "hashes.Hash", "pbkdf2.PBKDF2HMAC", "kbkdf.KBKDFHMAC", "encryptor"} = {}

\* PBKDF2 with a supported hash and a salt but no iteration count.
C20_Witness ==
    /\ call.op = "derive_key"
    /\ call.args.derivation_method = "PBKDF2"
    /\ call.args.hash_algorithm = "SHA_256"
    /\ call.args.salt # NoBytes
    /\ call.args.iteration_count = NoInt
    /\ call.outcome.kind = "InvalidField"
    /\ call.outcome.msg = "For PBKDF2 key derivation, iteration count must be specified."

\* C21: every CryptographicFailure is preceded, within its call, by the log
\* record of the primitive's exception: the events of a call that ends in
\* CryptographicFailure end with logger.exception.
C21_FailureLogged ==
    (call # NoCall /\ call.outcome.kind = "CryptographicFailure") =>
        /\ call.outcome.trace # <<>>
        /\ call.outcome.trace[Len(call.outcome.trace)] = "logger.exception"

==========================================================================
